---- MODULE Spec2Model ----
(***************************************************************************)
(* Terminal session engine of claude-canvas: the shell-session driver      *)
(* (useShellSession) with its completion detector, the output buffer       *)
(* (useOutputBuffer) it feeds, and the Terminal component that wires both  *)
(* to the IPC control plane (useTerminalIPC).                              *)
(*                                                                         *)
(* Text is a sequence of symbols.  A symbol is a record [ch, cmd]: ch is a *)
(* fragment of the real text (a word, a line break, half a marker), cmd is *)
(* a ghost tag: on the digits of an exit code it names the command whose   *)
(* exit code they are, elsewhere it is 0.  The code never reads the tag.   *)
(* A marker is two fragments, so that a chunk boundary can fall inside it. *)
(***************************************************************************)
EXTENDS Integers, Sequences, FiniteSets, TLC

VARIABLES
  processRef,          \* useShellSession: processRef.current is set
  writerRef,           \* useShellSession: writerRef.current is set
  isRunning,           \* useShellSession: useState isRunning
  lastExitCode,        \* useShellSession: useState lastExitCode
  commandStartTimeRef, \* useShellSession: commandStartTimeRef.current is set
  pendingOutputRef,    \* useShellSession: pendingOutputRef.current
  shellState,          \* Terminal: useState shellState
  lines,               \* useOutputBuffer: useState lines
  totalCountRef,       \* useOutputBuffer: totalCountRef.current
  events,              \* the commandStarted and commandComplete messages
                       \* broadcast by the IPC server, the newest EventWindow
  readySent,           \* number of terminalReady messages broadcast
  cancelledSent,       \* a cancelled message was broadcast
  renderPending,       \* a state setter ran and React has not rendered yet
  app,                 \* Terminal: "starting", "running", "exiting", "unmounted"
  proc,                \* the shell process: "none", "alive", "dead", "reaped"
  stdout,              \* what the shell is still to print, in order
  cut,                 \* where the pipe cuts stdout into chunks: "lines" (after a
                       \* line break only) or "anywhere"
  op,                  \* the handler that ran last, with its outcome
  requests,            \* number of requests made of the session so far
  budget,              \* number of requests that will be made of the session
  cmds,                \* ghost: per issued command, what became of it
  streamingEnabled,    \* Terminal: useState streamingEnabled
  ipcStreamingEnabled, \* useTerminalIPC: useState streamingEnabled
  lastOutput,          \* the output message the latest step broadcast, if any
  reply,               \* what the latest step answered: the lines of getLines
                       \* or the outputBuffer message of getOutput, if any
  hist,                \* ghost, of a buffer driven on its own: the lines
                       \* appended since the last clear()
  received,            \* ghost, of a buffer driven on its own: number of lines
                       \* ever appended
  renderedTotal,       \* ghost: totalCountRef.current at the latest render
  isConnected,         \* useTerminalIPC: useState isConnected
  clients,             \* controllers connected to the socket
  registry,            \* the pane registry file: panes by canvas id, defaultPane
  legacyFile,          \* the legacy single-pane file: a pane id, or NULL
  tmux,                \* the panes of the multiplexer, with what each runs
  created,             \* number of panes the multiplexer has created
  cli,                 \* cli.ts terminal-output: the controller's round trip
  racers               \* two processes in saveCanvasPaneId, step by step

vars == <<processRef, writerRef, isRunning, lastExitCode, commandStartTimeRef,
          pendingOutputRef, shellState, lines, totalCountRef, events,
          readySent, cancelledSent, renderPending, app, proc, stdout, cut, op,
          requests, cmds, streamingEnabled, ipcStreamingEnabled, lastOutput,
          reply, hist, received, renderedTotal, budget, isConnected, clients,
          registry, legacyFile, tmux, created, cli, racers>>

\* the connection state: only client connects and disconnects change it
connVars == <<isConnected, clients>>

\* the pane registry and the multiplexer: a Terminal changes neither
regVars == <<registry, legacyFile, tmux, created>>

\* other processes: a terminal-output controller, and the two processes of
\* the registry race
peerVars == <<cli, racers>>

----------------------------------------------------------------------------
(* Bounds of the model *)

\* requests (IPC messages and key presses) made of one session whose pipe cuts
\* after line breaks
MaxRequests == 3

\* requests made of one session whose pipe cuts anywhere
MaxSplitRequests == 1

\* requests made of one session that is sent every message of the control
\* plane, its pipe cutting after line breaks
MaxIpcRequests == 2

\* config.maxBufferLines of the sessions explored
MaxBufferLines == 2

\* the newest broadcasts an observer of the socket remembers
EventWindow == 2

\* terminalReady broadcasts are counted up to this number
MaxReady == 2

\* lines appended to an output buffer driven on its own
MaxAppended == 4

\* the largest count asked of getLines and the largest lineCount of getOutput
MaxCount == 3

\* controllers connected to one session at a time
MaxClients == 2

\* requests made of one session whose controllers come and go
MaxConnRequests == 2

\* panes the multiplexer creates
MaxPanes == 2

\* command lines the controller or the user submits
Commands == {"echo ok", "false"}

\* null, of a number | null
NULL == -1

----------------------------------------------------------------------------
(* Text *)

Sym(c, k) == [ch |-> c, cmd |-> k]

\* the text of a literal written in the source, fragment by fragment
Lit(cs) == [i \in 1..Len(cs) |-> Sym(cs[i], 0)]

Chars(t) == [i \in 1..Len(t) |-> t[i].ch]

COMMAND_MARKER == <<"__CANVAS_CMD", "_DONE__">>

EXIT_CODE_MARKER == <<"__CANVAS_EXIT", "_CODE__">>

NL == "\n"

Digits == {"0", "1", "2", "3", "4", "5", "6", "7", "8", "9"}

DigitValue(d) ==
  CASE d = "0" -> 0 [] d = "1" -> 1 [] d = "2" -> 2 [] d = "3" -> 3
    [] d = "4" -> 4 [] d = "5" -> 5 [] d = "6" -> 6 [] d = "7" -> 7
    [] d = "8" -> 8 [] d = "9" -> 9

\* pat occurs in t at position i
OccursAt(t, pat, i) ==
  /\ i >= 1
  /\ i + Len(pat) - 1 <= Len(t)
  /\ \A j \in 1..Len(pat) : t[i + j - 1].ch = pat[j]

\* String.prototype.indexOf: the first position of pat in t, -1 when absent
IndexOf(t, pat) ==
  LET hits == {i \in 1..Len(t) : OccursAt(t, pat, i)}
  IN IF hits = {} THEN -1 ELSE CHOOSE i \in hits : \A j \in hits : i <= j

\* String.prototype.includes
Includes(t, pat) == IndexOf(t, pat) # -1

\* String.prototype.split("\n")
RECURSIVE Split(_)
Split(t) ==
  LET breaks == {i \in 1..Len(t) : t[i].ch = NL}
  IN IF breaks = {} THEN <<t>>
     ELSE LET i == CHOOSE b \in breaks : \A c \in breaks : b <= c
          IN <<SubSeq(t, 1, i - 1)>> \o Split(SubSeq(t, i + 1, Len(t)))

\* Array.prototype.join("\n")
RECURSIVE Join(_)
Join(ls) ==
  IF Len(ls) = 0 THEN <<>>
  ELSE IF Len(ls) = 1 THEN ls[1]
  ELSE ls[1] \o <<Sym(NL, 0)>> \o Join(Tail(ls))

\* the else branch of processOutput keeps the lines that hold no whole marker
NoMarker(line) ==
  /\ ~Includes(line, EXIT_CODE_MARKER)
  /\ ~Includes(line, COMMAND_MARKER)

\* Array.prototype.filter with that test
RECURSIVE FilterNoMarker(_)
FilterNoMarker(ls) ==
  IF Len(ls) = 0 THEN <<>>
  ELSE (IF NoMarker(ls[1]) THEN <<ls[1]>> ELSE <<>>) \o FilterNoMarker(Tail(ls))

\* the digits that follow position i of t (the greedy \d+ of the pattern)
RECURSIVE DigitsFrom(_, _)
DigitsFrom(t, i) ==
  IF i <= Len(t) /\ t[i].ch \in Digits
  THEN <<t[i]>> \o DigitsFrom(t, i + 1)
  ELSE <<>>

\* parseInt(s, 10) of a run of digits
RECURSIVE ParseInt(_)
ParseInt(ds) ==
  IF Len(ds) = 0 THEN 0
  ELSE 10 * ParseInt(SubSeq(ds, 1, Len(ds) - 1)) + DigitValue(ds[Len(ds)].ch)

\* pending.match(new RegExp(`${EXIT_CODE_MARKER}:(\\d+)`)): the digits of the
\* leftmost match, empty when nothing matches
ExitCodeMatch(t) ==
  LET n == Len(EXIT_CODE_MARKER)
      hits == {i \in 1..Len(t) :
                 /\ OccursAt(t, EXIT_CODE_MARKER, i)
                 /\ OccursAt(t, <<":">>, i + n)
                 /\ DigitsFrom(t, i + n + 1) # <<>>}
  IN IF hits = {} THEN <<>>
     ELSE LET i == CHOOSE h \in hits : \A j \in hits : h <= j
          IN DigitsFrom(t, i + n + 1)

\* text.split("\n").filter(...).join("\n")
FilteredText(text) == Join(FilterNoMarker(Split(text)))

----------------------------------------------------------------------------
(* Output buffer (useOutputBuffer) *)

Buf == [lines |-> lines, total |-> totalCountRef]

\* append that keeps the empty segment after a final line break
NewLinesKeepsLast(content, source) ==
  LET contentLines == Split(content)
  IN [i \in 1..Len(contentLines) |->
        [content |-> contentLines[i], source |-> source]]

\* append: one line per segment, the empty segment after a final line break
\* dropped
NewLines(content, source) ==
  LET contentLines == Split(content)
      n == Len(contentLines)
      kept == IF contentLines[n] = <<>>
              THEN SubSeq(contentLines, 1, n - 1) ELSE contentLines
  IN [i \in 1..Len(kept) |-> [content |-> kept[i], source |-> source]]

\* a slice that keeps one line more than maxLines
TrimKeepsOneMore(ls) ==
  IF Len(ls) > MaxBufferLines + 1
  THEN SubSeq(ls, Len(ls) - MaxBufferLines, Len(ls)) ELSE ls

\* the slice that keeps the newest maxLines lines
Trim(ls) ==
  IF Len(ls) > MaxBufferLines
  THEN SubSeq(ls, Len(ls) - MaxBufferLines + 1, Len(ls)) ELSE ls

\* append(content, source) that keeps the oldest maxLines lines
BufAppendKeepsOldest(b, content, source) ==
  LET newLines == NewLines(content, source)
      combined == b.lines \o newLines
  IN IF Len(newLines) = 0 THEN b
     ELSE [lines |-> IF Len(combined) > MaxBufferLines
                     THEN SubSeq(combined, 1, MaxBufferLines) ELSE combined,
           total |-> b.total + Len(newLines)]

\* append(content, source) on buffer b
BufAppend(b, content, source) ==
  LET newLines == NewLines(content, source)
  IN IF Len(newLines) = 0 THEN b
     ELSE [lines |-> Trim(b.lines \o newLines),
           total |-> b.total + Len(newLines)]

\* a buffer whose counter is the number of lines it retains
SetBufCountsRetained(b) == lines' = b.lines /\ totalCountRef' = Len(b.lines)

SetBuf(b) == lines' = b.lines /\ totalCountRef' = b.total

\* appendLine(line) on buffer b
BufAppendLine(b, line) ==
  [lines |-> Trim(b.lines \o <<line>>), total |-> b.total + 1]

\* clear()
BufClear(b) == [lines |-> <<>>, total |-> 0]

Min(a, b) == IF a < b THEN a ELSE b

Max(a, b) == IF a > b THEN a ELSE b

\* Array.prototype.slice(start, end): a negative index counts from the end
RelativeIndex(k, len) == IF k < 0 THEN Max(len + k, 0) ELSE Min(k, len)

Slice(ls, start, end) ==
  SubSeq(ls, RelativeIndex(start, Len(ls)) + 1, RelativeIndex(end, Len(ls)))

\* getLines(count, fromEnd); count is NULL when the argument is left out
GetLines(ls, count, fromEnd) ==
  IF count = NULL \/ count = 0 THEN ls
  ELSE IF fromEnd THEN Slice(ls, -count, Len(ls))
  ELSE Slice(ls, 0, count)

\* the count arguments of getLines, and the lineCount fields of getOutput
Counts == (0..MaxCount) \cup {NULL}

\* Terminal's onError: outputBuffer.append(`Error: ${error.message}`, "system")
OnError(b, message) == BufAppend(b, Lit(<<"Error: ", message>>), "system")

----------------------------------------------------------------------------
(* The shell process *)

\* what a command prints, and the exit code it ends with
CommandOutput(command) ==
  IF command = "echo ok" THEN <<"ok", NL>> ELSE <<>>

CommandExit(command) == IF command = "echo ok" THEN 0 ELSE 1

CodeDigits(code) == IF code = 0 THEN <<"0">> ELSE <<"1">>

\* what the shell prints for `<command> 2>&1; echo "<EXIT>:$?"; echo "<DONE>"`,
\* the k-th command issued
ShellRun(command, k) ==
  LET cs == CommandOutput(command) \o EXIT_CODE_MARKER \o <<":">>
              \o CodeDigits(CommandExit(command)) \o <<NL>>
              \o COMMAND_MARKER \o <<NL>>
  IN [i \in 1..Len(cs) |-> Sym(cs[i], IF cs[i] \in Digits THEN k ELSE 0)]

\* a process that has ended prints nothing more
Ended == proc' = "dead" /\ stdout' = <<>>

----------------------------------------------------------------------------
(* Shell session driver (useShellSession) *)

\* defaultConfig of the two terminal scenarios, as far as Terminal reads it here
terminalInteractiveScenario == [streamingEnabled |-> FALSE]

terminalDisplayScenario == [streamingEnabled |-> TRUE]

\* no output message, and no answer yet
NoOutput == [type |-> "none"]

NoReply == [type |-> "none"]

\* a step that answers nothing and broadcasts no output
Silent == reply' = NoReply /\ lastOutput' = NoOutput

\* no terminal-output command has been run
NoCli == [phase |-> "idle", first |-> "none", result |-> "none"]

\* the processes of the registry race
Procs == {1, 2}

\* no pane has been spawned, and there is no legacy file
NoPanes ==
  /\ legacyFile = NULL
  /\ tmux = [p \in {} |-> NULL]
  /\ created = 0

\* an earlier version has left its single-pane file, naming the pane of a
\* canvas that is still there
LegacyPane ==
  /\ legacyFile = 1
  /\ tmux = [p \in {1} |->
              [program |-> "canvas", kind |-> "calendar",
               socket |-> <<"/tmp/canvas-", "c1", ".sock">>,
               title |-> "host"]]
  /\ created = 1

\* the state of a Terminal constructed with config, no registry file yet
Mount(config) ==
  /\ processRef = FALSE
  /\ writerRef = FALSE
  /\ isRunning = FALSE
  /\ lastExitCode = NULL
  /\ commandStartTimeRef = FALSE
  /\ pendingOutputRef = <<>>
  /\ shellState = [isRunning |-> FALSE, pid |-> NULL, lastExitCode |-> NULL]
  /\ lines = <<>>
  /\ totalCountRef = 0
  /\ events = <<>>
  /\ readySent = 0
  /\ cancelledSent = FALSE
  /\ renderPending = FALSE
  /\ app = "starting"
  /\ proc = "none"
  /\ stdout = <<>>
  /\ cut \in {"lines", "anywhere"}
  /\ op = "init"
  /\ requests = 0
  /\ cmds = <<>>
  /\ streamingEnabled = config.streamingEnabled
  /\ ipcStreamingEnabled = FALSE
  /\ lastOutput = NoOutput
  /\ reply = NoReply
  /\ hist = <<>>
  /\ received = 0
  /\ renderedTotal = 0
  /\ isConnected = FALSE
  /\ clients = 0
  /\ registry = [panes |-> [i \in {} |-> NULL], defaultPane |-> NULL]
  /\ NoPanes \/ LegacyPane
  /\ cli = NoCli
  /\ racers = [p \in Procs |-> [pc |-> "idle"]]

Init ==
  /\ Mount(terminalInteractiveScenario)
  /\ NoPanes
  /\ budget = IF cut = "lines" THEN MaxRequests ELSE MaxSplitRequests

\* the mount effect: startShell()
StartShell ==
  /\ UNCHANGED <<cut, budget, streamingEnabled, ipcStreamingEnabled, hist,
                 received>>
  /\ UNCHANGED <<renderedTotal, connVars, regVars, peerVars>>
  /\ reply' = NoReply
  /\ lastOutput' = NoOutput
  /\ app = "starting"
  /\ app' = "running"
  /\ \/ /\ proc' = "alive"                  \* spawn succeeded
        /\ processRef' = TRUE
        /\ writerRef' = TRUE
        /\ shellState' = [shellState EXCEPT !.pid = 1]
        /\ op' = "startShell"
        /\ UNCHANGED <<lines, totalCountRef>>
     \/ /\ op' = "startShell:failed"        \* spawn threw: onError(err)
        /\ SetBuf(OnError(Buf, "spawn failed"))
        /\ UNCHANGED <<proc, processRef, writerRef, shellState>>
  /\ renderPending' = TRUE
  /\ UNCHANGED <<isRunning, lastExitCode, commandStartTimeRef, pendingOutputRef,
                 events, readySent, cancelledSent, stdout, requests, cmds>>

Live == app \in {"running", "exiting"} /\ ~renderPending

\* processOutput(text, source), the chunk being the first n symbols of stdout
ProcessOutput(n) ==
  LET text == SubSeq(stdout, 1, n)
      pending == pendingOutputRef \o text
      exitCodeMatch == ExitCodeMatch(pending)
      markerIndex == IndexOf(pending, COMMAND_MARKER)
  IN /\ stdout' = SubSeq(stdout, n + 1, Len(stdout))
     /\ IF exitCodeMatch # <<>> /\ markerIndex # -1
        THEN LET exitCode == ParseInt(exitCodeMatch)
                 k == exitCodeMatch[1].cmd
             IN /\ lastExitCode' = exitCode
                /\ isRunning' = FALSE
                /\ commandStartTimeRef' = FALSE
                /\ pendingOutputRef' = <<>>
                /\ shellState' = [shellState EXCEPT !.isRunning = FALSE,
                                                    !.lastExitCode = exitCode]
                /\ renderPending' = TRUE
                /\ op' = "processOutput:complete"
                /\ cmds' = [cmds EXCEPT ![k].done = TRUE]
                /\ UNCHANGED <<lines, totalCountRef>>
        ELSE LET filteredText == FilteredText(text)
             IN /\ pendingOutputRef' = pending
                /\ IF filteredText # <<>>
                   THEN /\ SetBuf(BufAppend(Buf, filteredText, "stdout"))
                        /\ renderPending' = TRUE
                   ELSE UNCHANGED <<lines, totalCountRef, renderPending>>
                /\ op' = "processOutput"
                /\ UNCHANGED <<lastExitCode, isRunning, commandStartTimeRef,
                               shellState, cmds>>

\* the lengths reader.read() can return the head of stdout in
ChunkSizes ==
  {n \in 1..Len(stdout) : cut = "anywhere" \/ n = Len(stdout) \/ stdout[n].ch = NL}

\* one turn of the stdout reader loop
ReadStdout ==
  /\ UNCHANGED <<cut, budget, streamingEnabled, ipcStreamingEnabled, hist,
                 received>>
  /\ UNCHANGED <<renderedTotal, connVars, regVars, peerVars>>
  /\ reply' = NoReply
  /\ lastOutput' = NoOutput
  /\ Live
  /\ \E n \in ChunkSizes : ProcessOutput(n)
  /\ UNCHANGED <<processRef, writerRef, events, readySent, cancelledSent, app,
                 proc, requests>>

\* execute(command) without a writer that takes the command as issued and
\* reports nothing
ExecuteQueuesSilently(b) ==
  /\ SetBuf(b)
  /\ op' = "execute:notInitialized"
  /\ isRunning' = TRUE
  /\ commandStartTimeRef' = TRUE
  /\ shellState' = [shellState EXCEPT !.isRunning = TRUE]
  /\ UNCHANGED <<stdout, cmds>>

\* execute(command) without a writer: onError(new Error("Shell not initialized"))
ExecuteNotInitialized(b) ==
  /\ SetBuf(OnError(b, "Shell not initialized"))
  /\ op' = "execute:notInitialized"
  /\ UNCHANGED <<isRunning, commandStartTimeRef, shellState, stdout, cmds>>

\* execute(command) with a writer: the command line is written to the shell
ExecuteIssue(command, b) ==
  /\ commandStartTimeRef' = TRUE
  /\ shellState' = [shellState EXCEPT !.isRunning = TRUE]
  /\ \/ /\ proc = "alive"                   \* the shell reads the line
        /\ stdout' = stdout \o ShellRun(command, Len(cmds) + 1)
        /\ cmds' = Append(cmds, [code |-> CommandExit(command),
                                 interrupted |-> FALSE, done |-> FALSE])
        /\ isRunning' = TRUE
        /\ SetBuf(b)
        /\ op' = "execute"
     \/ /\ proc # "alive"                   \* the pipe is broken: write rejects
        /\ isRunning' = FALSE
        /\ SetBuf(OnError(b, "write failed"))
        /\ op' = "execute:writeFailed"
        /\ UNCHANGED <<stdout, cmds>>
     \/ /\ proc # "alive"                   \* the line is lost without an error
        /\ isRunning' = TRUE
        /\ SetBuf(b)
        /\ op' = "execute:lost"
        /\ UNCHANGED <<stdout, cmds>>

\* execute(command) that forgets the exit code of the command before
ExecuteClearsExitCode(command, b) ==
  /\ IF ~writerRef THEN ExecuteNotInitialized(b) ELSE ExecuteIssue(command, b)
  /\ lastExitCode' = NULL
  /\ UNCHANGED <<processRef, writerRef, pendingOutputRef, proc>>

\* execute(command); b is the output buffer as the caller left it
Execute(command, b) ==
  /\ IF ~writerRef THEN ExecuteNotInitialized(b) ELSE ExecuteIssue(command, b)
  /\ UNCHANGED <<processRef, writerRef, lastExitCode, pendingOutputRef, proc>>

\* raw input the user or the controller types into the shell
RawInputs == {"y", "echo ok\n"}

RawOutput(data) == IF data = "echo ok\n" THEN Lit(<<"ok", NL>>) ELSE <<>>

\* write(data)
Write(data, b) ==
  /\ IF ~writerRef
     THEN /\ SetBuf(b)
          /\ op' = "write:noWriter"
          /\ UNCHANGED stdout
     ELSE \/ /\ proc = "alive"
             /\ stdout' = stdout \o RawOutput(data)
             /\ SetBuf(b)
             /\ op' = "write"
          \/ /\ proc # "alive"             \* the pipe is broken: write rejects
             /\ SetBuf(OnError(b, "write failed"))
             /\ op' = "write:failed"
             /\ UNCHANGED stdout
  /\ UNCHANGED <<processRef, writerRef, isRunning, lastExitCode,
                 commandStartTimeRef, pendingOutputRef, shellState, proc, cmds>>

\* the commands the shell has been given and has not been seen to complete
Interrupted(cs) ==
  [i \in 1..Len(cs) |->
     IF cs[i].done THEN cs[i] ELSE [cs[i] EXCEPT !.interrupted = TRUE]]

\* interrupt() that signals the process and leaves the state to the marker
InterruptAwaitsMarker(b) ==
  /\ IF processRef
     THEN /\ cmds' = Interrupted(cmds)
          /\ op' = "interrupt"
          /\ UNCHANGED <<isRunning, shellState>>
          /\ \/ UNCHANGED <<proc, stdout>>
             \/ proc = "alive" /\ Ended
     ELSE /\ op' = "interrupt:noProcess"
          /\ UNCHANGED <<isRunning, shellState, cmds, proc, stdout>>
  /\ SetBuf(b)
  /\ UNCHANGED <<processRef, writerRef, lastExitCode, commandStartTimeRef,
                 pendingOutputRef>>

\* interrupt(); b is the output buffer as the caller leaves it
Interrupt(b) ==
  /\ IF processRef
     THEN /\ isRunning' = FALSE
          /\ shellState' = [shellState EXCEPT !.isRunning = FALSE]
          /\ cmds' = Interrupted(cmds)
          /\ op' = "interrupt"
          /\ \/ UNCHANGED <<proc, stdout>>  \* SIGINT does not end the shell
             \/ /\ proc = "alive"           \* SIGINT ends the shell
                /\ Ended
     ELSE /\ op' = "interrupt:noProcess"
          /\ UNCHANGED <<isRunning, shellState, cmds, proc, stdout>>
  /\ SetBuf(b)
  /\ UNCHANGED <<processRef, writerRef, lastExitCode, commandStartTimeRef,
                 pendingOutputRef>>

\* close() that also idles the session
CloseIdles ==
  /\ processRef' = FALSE
  /\ writerRef' = FALSE
  /\ IF processRef /\ proc = "alive" THEN Ended ELSE UNCHANGED <<proc, stdout>>
  /\ op' = "close"
  /\ isRunning' = FALSE
  /\ UNCHANGED <<lastExitCode, commandStartTimeRef, pendingOutputRef,
                 shellState, lines, totalCountRef, cmds>>

\* close()
Close ==
  /\ processRef' = FALSE
  /\ writerRef' = FALSE
  /\ IF processRef /\ proc = "alive"
     THEN Ended
     ELSE UNCHANGED <<proc, stdout>>
  /\ op' = "close"
  /\ UNCHANGED <<isRunning, lastExitCode, commandStartTimeRef, pendingOutputRef,
                 shellState, lines, totalCountRef, cmds>>

\* proc.exited.then(...): the exit callback, with Terminal's onExit
ProcExited ==
  /\ UNCHANGED <<cut, budget, streamingEnabled, ipcStreamingEnabled, hist,
                 received>>
  /\ UNCHANGED <<renderedTotal, connVars, regVars, peerVars>>
  /\ reply' = NoReply
  /\ lastOutput' = NoOutput
  /\ Live
  /\ proc = "dead"
  /\ proc' = "reaped"
  /\ processRef' = FALSE
  /\ writerRef' = FALSE
  /\ SetBuf(BufAppend(Buf, Lit(<<NL, "Shell exited with code">>), "system"))
  /\ app' = "exiting"
  /\ renderPending' = TRUE
  /\ op' = "exited"
  /\ UNCHANGED <<isRunning, lastExitCode, commandStartTimeRef, pendingOutputRef,
                 shellState, events, readySent, cancelledSent, stdout, requests,
                 cmds>>

\* the shell process ends on its own
ShellDies ==
  /\ UNCHANGED <<cut, budget, streamingEnabled, ipcStreamingEnabled, hist,
                 received>>
  /\ UNCHANGED <<renderedTotal, connVars, regVars, peerVars>>
  /\ UNCHANGED <<reply, lastOutput>>
  /\ Live
  /\ proc = "alive"
  /\ Ended
  /\ UNCHANGED <<processRef, writerRef, isRunning, lastExitCode,
                 commandStartTimeRef, pendingOutputRef, shellState, lines,
                 totalCountRef, events, readySent, cancelledSent, renderPending,
                 app, op, requests, cmds>>

----------------------------------------------------------------------------
(* Terminal component and its IPC handlers *)

\* a broadcast message; cmd is a ghost: the command of cmds the message is
\* about, 0 when the shell was given none
Ev(type, command, exitCode, cmd) ==
  [type |-> type, command |-> command, exitCode |-> exitCode, cmd |-> cmd]

\* server.broadcast of a command event, as the observer records it
Broadcast(evs, e) ==
  LET all == Append(evs, e)
  IN IF Len(all) > EventWindow
     THEN SubSeq(all, Len(all) - EventWindow + 1, Len(all)) ELSE all

Request ==
  /\ Live
  /\ requests < budget
  /\ requests' = requests + 1

\* onExecuteCommand (IPC executeCommand) and executeCommand (the Enter key)
ExecuteCommand(command) ==
  /\ Execute(command, BufAppend(Buf, Lit(<<"$ ", command>>), "system"))
  /\ events' = Broadcast(events, Ev("commandStarted", command, NULL,
                   IF Len(cmds') > Len(cmds) THEN Len(cmds') ELSE 0))
  /\ renderPending' = TRUE
  /\ UNCHANGED <<readySent, cancelledSent, app>>

IpcExecuteCommand ==
  /\ UNCHANGED <<cut, budget, streamingEnabled, ipcStreamingEnabled, hist,
                 received>>
  /\ UNCHANGED <<renderedTotal, connVars, regVars, peerVars>>
  /\ reply' = NoReply
  /\ lastOutput' = NoOutput
  /\ Request
  /\ \E command \in Commands : ExecuteCommand(command)

KeyEnter ==
  /\ UNCHANGED <<cut, budget, streamingEnabled, ipcStreamingEnabled, hist,
                 received>>
  /\ UNCHANGED <<renderedTotal, connVars, regVars, peerVars>>
  /\ reply' = NoReply
  /\ lastOutput' = NoOutput
  /\ Request
  /\ ~shellState.isRunning
  /\ \E command \in Commands : ExecuteCommand(command)

\* onInterrupt (IPC interrupt)
IpcInterrupt ==
  /\ UNCHANGED <<cut, budget, streamingEnabled, ipcStreamingEnabled, hist,
                 received>>
  /\ UNCHANGED <<renderedTotal, connVars, regVars, peerVars>>
  /\ reply' = NoReply
  /\ lastOutput' = NoOutput
  /\ Request
  /\ Interrupt(BufAppend(Buf, Lit(<<"^C">>), "system"))
  /\ renderPending' = TRUE
  /\ UNCHANGED <<events, readySent, cancelledSent, app>>

\* Ctrl+C in useInput
KeyCtrlC ==
  /\ UNCHANGED <<cut, budget, streamingEnabled, ipcStreamingEnabled, hist,
                 received>>
  /\ UNCHANGED <<renderedTotal, connVars, regVars, peerVars>>
  /\ reply' = NoReply
  /\ lastOutput' = NoOutput
  /\ Request
  /\ \/ /\ shellState.isRunning
        /\ Interrupt(BufAppend(Buf, Lit(<<"^C">>), "system"))
        /\ renderPending' = TRUE
     \/ /\ ~shellState.isRunning            \* the input line is empty
        /\ Interrupt(Buf)
        /\ renderPending' = processRef
  /\ UNCHANGED <<events, readySent, cancelledSent, app>>

\* onInput (IPC terminalInput)
IpcTerminalInput ==
  /\ UNCHANGED <<cut, budget, streamingEnabled, ipcStreamingEnabled, hist,
                 received>>
  /\ UNCHANGED <<renderedTotal, connVars, regVars, peerVars>>
  /\ reply' = NoReply
  /\ lastOutput' = NoOutput
  /\ Request
  /\ \E data \in RawInputs : Write(data, Buf)
  /\ renderPending' = (lines' # lines)
  /\ UNCHANGED <<events, readySent, cancelledSent, app>>

\* onClose (IPC close): shell.close(); exit()
IpcClose ==
  /\ UNCHANGED <<cut, budget, streamingEnabled, ipcStreamingEnabled, hist,
                 received>>
  /\ UNCHANGED <<renderedTotal, connVars, regVars, peerVars>>
  /\ reply' = NoReply
  /\ lastOutput' = NoOutput
  /\ Request
  /\ Close
  /\ app' = "exiting"
  /\ UNCHANGED <<events, readySent, cancelledSent, renderPending>>

\* the Escape key: sendCancelled("User quit"); shell.close(); exit()
KeyEscape ==
  /\ UNCHANGED <<cut, budget, streamingEnabled, ipcStreamingEnabled, hist,
                 received>>
  /\ UNCHANGED <<renderedTotal, connVars, regVars, peerVars>>
  /\ reply' = NoReply
  /\ lastOutput' = NoOutput
  /\ Request
  /\ cancelledSent' = TRUE
  /\ Close
  /\ app' = "exiting"
  /\ UNCHANGED <<events, readySent, renderPending>>

\* sendOutput(chunk, source)
SendOutput(chunk, source) ==
  IF ipcStreamingEnabled
  THEN [type |-> "output", chunk |-> chunk, source |-> source]
  ELSE NoOutput

\* a streaming effect that does not look at the streaming flags
StreamOutputUnguarded ==
  IF Len(lines) > 0
  THEN [type |-> "output", chunk |-> lines[Len(lines)].content,
        source |-> lines[Len(lines)].source]
  ELSE NoOutput

\* the streaming effect: what it broadcasts
StreamOutput ==
  IF streamingEnabled /\ ipcStreamingEnabled /\ Len(lines) > 0
  THEN SendOutput(lines[Len(lines)].content, lines[Len(lines)].source)
  ELSE NoOutput

\* a render of Terminal, with the effects that run after it
Render ==
  /\ UNCHANGED <<cut, budget, streamingEnabled, ipcStreamingEnabled, hist,
                 received>>
  /\ reply' = NoReply
  /\ lastOutput' = StreamOutput
  /\ renderedTotal' = totalCountRef
  /\ UNCHANGED <<connVars, regVars, peerVars>>
  /\ renderPending
  /\ app # "unmounted"
  /\ renderPending' = FALSE
  /\ events' = IF ~shellState.isRunning /\ shellState.lastExitCode # NULL
               THEN Broadcast(events,
                              Ev("commandComplete", "", shellState.lastExitCode,
                                 Len(cmds)))
               ELSE events
  /\ readySent' = IF processRef /\ readySent < MaxReady
                  THEN readySent + 1 ELSE readySent
  /\ op' = "render"
  /\ UNCHANGED <<processRef, writerRef, isRunning, lastExitCode,
                 commandStartTimeRef, pendingOutputRef, shellState, lines,
                 totalCountRef, cancelledSent, app, proc, stdout, requests, cmds>>

\* the app unmounts after exit(): the cleanup of the mount effect
Unmount ==
  /\ UNCHANGED <<cut, budget, streamingEnabled, ipcStreamingEnabled, hist,
                 received>>
  /\ UNCHANGED <<renderedTotal, connVars, regVars, peerVars>>
  /\ reply' = NoReply
  /\ lastOutput' = NoOutput
  /\ app = "exiting"
  /\ ~renderPending
  /\ app' = "unmounted"
  /\ processRef' = FALSE
  /\ IF processRef /\ proc = "alive"
     THEN Ended
     ELSE UNCHANGED <<proc, stdout>>
  /\ op' = "unmount"
  /\ UNCHANGED <<writerRef, isRunning, lastExitCode, commandStartTimeRef,
                 pendingOutputRef, shellState, lines, totalCountRef, events,
                 readySent, cancelledSent, renderPending, requests, cmds>>

\* the getOutput messages a controller sends: lineCount is NULL when the
\* field is left out, and fromEnd may be left out
GetOutputMessages ==
  {[type |-> "getOutput", lineCount |-> n, fromEnd |-> f] :
     n \in Counts, f \in BOOLEAN}
    \cup {[type |-> "getOutput", lineCount |-> n] : n \in Counts}

\* msg.fromEnd ?? false
FromEndDefaultsFalse(msg) ==
  IF "fromEnd" \in DOMAIN msg THEN msg.fromEnd ELSE FALSE

\* msg.fromEnd ?? true
FromEnd(msg) == IF "fromEnd" \in DOMAIN msg THEN msg.fromEnd ELSE TRUE

\* case "getOutput": onGetOutput, then the outputBuffer broadcast
IpcGetOutput ==
  /\ Request
  /\ \E msg \in GetOutputMessages :
       reply' = [type |-> "outputBuffer", msg |-> msg,
                 lines |-> GetLines(lines, msg.lineCount, FromEnd(msg)),
                 totalAvailable |-> totalCountRef]
  /\ op' = "getOutput"
  /\ lastOutput' = NoOutput
  /\ UNCHANGED <<processRef, writerRef, isRunning, lastExitCode,
                 commandStartTimeRef, pendingOutputRef, shellState, lines,
                 totalCountRef, events, readySent, cancelledSent, renderPending,
                 app, proc, stdout, cut, cmds, streamingEnabled,
                 ipcStreamingEnabled, hist, received, renderedTotal,
                 budget, connVars, regVars, peerVars>>

\* case "setStreaming": setStreamingEnabled(msg.enabled) in the hook, and
\* onSetStreaming in Terminal
IpcSetStreaming ==
  /\ Request
  /\ \E enabled \in BOOLEAN :
       /\ ipcStreamingEnabled' = enabled
       /\ streamingEnabled' = enabled
       /\ renderPending' =
            (enabled # ipcStreamingEnabled \/ enabled # streamingEnabled)
  /\ op' = "setStreaming"
  /\ Silent
  /\ UNCHANGED <<processRef, writerRef, isRunning, lastExitCode,
                 commandStartTimeRef, pendingOutputRef, shellState, lines,
                 totalCountRef, events, readySent, cancelledSent, app, proc,
                 stdout, cut, cmds, hist, received, renderedTotal,
                 budget, connVars, regVars, peerVars>>

\* case "update", "getSelection", "getContent" that answers the controller
IpcIgnoredAnswers ==
  /\ Request
  /\ \E type \in {"update", "getSelection", "getContent"} : op' = type
  /\ reply' = [type |-> "outputBuffer", msg |-> [type |-> "getOutput"],
               lines |-> <<>>, totalAvailable |-> 0]
  /\ lastOutput' = NoOutput
  /\ UNCHANGED <<processRef, writerRef, isRunning, lastExitCode,
                 commandStartTimeRef, pendingOutputRef, shellState, lines,
                 totalCountRef, events, readySent, cancelledSent, renderPending,
                 app, proc, stdout, cut, cmds, streamingEnabled,
                 ipcStreamingEnabled, hist, received, renderedTotal,
                 budget, connVars, regVars, peerVars>>

\* case "update", "getSelection", "getContent": break
IpcIgnored ==
  /\ Request
  /\ \E type \in {"update", "getSelection", "getContent"} : op' = type
  /\ Silent
  /\ UNCHANGED <<processRef, writerRef, isRunning, lastExitCode,
                 commandStartTimeRef, pendingOutputRef, shellState, lines,
                 totalCountRef, events, readySent, cancelledSent, renderPending,
                 app, proc, stdout, cut, cmds, streamingEnabled,
                 ipcStreamingEnabled, hist, received, renderedTotal,
                 budget, connVars, regVars, peerVars>>

\* Ctrl+L in useInput: outputBuffer.clear()
KeyCtrlL ==
  /\ Request
  /\ ~shellState.isRunning
  /\ SetBuf(BufClear(Buf))
  /\ renderPending' = TRUE
  /\ op' = "clear"
  /\ Silent
  /\ UNCHANGED <<processRef, writerRef, isRunning, lastExitCode,
                 commandStartTimeRef, pendingOutputRef, shellState, events,
                 readySent, cancelledSent, app, proc, stdout, cut, cmds,
                 streamingEnabled, ipcStreamingEnabled, hist, received,
                 renderedTotal, budget, connVars, regVars, peerVars>>

Next ==
  \/ StartShell
  \/ ReadStdout
  \/ IpcExecuteCommand
  \/ KeyEnter
  \/ IpcInterrupt
  \/ KeyCtrlC
  \/ IpcTerminalInput
  \/ IpcClose
  \/ KeyEscape
  \/ ProcExited
  \/ ShellDies
  \/ Render
  \/ Unmount

Spec == Init /\ [][Next]_vars

\* a Terminal of either scenario, with every message of the control plane
IpcInit ==
  /\ Mount(terminalInteractiveScenario) \/ Mount(terminalDisplayScenario)
  /\ NoPanes
  /\ budget = IF cut = "lines" THEN MaxIpcRequests ELSE MaxSplitRequests

IpcNext ==
  \/ StartShell
  \/ ReadStdout
  \/ IpcExecuteCommand
  \/ KeyEnter
  \/ IpcInterrupt
  \/ KeyCtrlC
  \/ IpcTerminalInput
  \/ IpcClose
  \/ KeyEscape
  \/ ProcExited
  \/ ShellDies
  \/ Render
  \/ Unmount
  \/ IpcGetOutput
  \/ IpcSetStreaming
  \/ IpcIgnored
  \/ KeyCtrlL

IpcSpec == IpcInit /\ [][IpcNext]_vars

----------------------------------------------------------------------------
(* Controllers connecting to and disconnecting from the session's socket *)

\* what a connection callback of the hook leaves alone
connFrame ==
  <<processRef, writerRef, isRunning, lastExitCode, commandStartTimeRef,
    pendingOutputRef, shellState, lines, totalCountRef, events, readySent,
    cancelledSent, app, proc, stdout, cut, requests, cmds, streamingEnabled,
    ipcStreamingEnabled, hist, received, renderedTotal, budget, regVars, peerVars>>

\* the server of a mounted Terminal is listening
Listening == app \in {"running", "exiting"}

\* onClientConnect: setIsConnected(true)
ClientConnect ==
  /\ Listening
  /\ clients < MaxClients
  /\ clients' = clients + 1
  /\ isConnected' = TRUE
  /\ renderPending' = (renderPending \/ ~isConnected)
  /\ op' = "clientConnect"
  /\ Silent
  /\ UNCHANGED connFrame

\* a disconnect handled as a close message is: onClose(); exit()
ClientDisconnectCloses ==
  /\ Listening
  /\ clients > 0
  /\ clients' = clients - 1
  /\ isConnected' = FALSE
  /\ renderPending' = (renderPending \/ isConnected)
  /\ Close
  /\ app' = "exiting"
  /\ Silent
  /\ UNCHANGED <<events, readySent, cancelledSent, cut, requests,
                 streamingEnabled, ipcStreamingEnabled, hist, received,
                 renderedTotal, budget, regVars, peerVars>>

\* onClientDisconnect: setIsConnected(false)
ClientDisconnect ==
  /\ Listening
  /\ clients > 0
  /\ clients' = clients - 1
  /\ isConnected' = FALSE
  /\ renderPending' = (renderPending \/ isConnected)
  /\ op' = "clientDisconnect"
  /\ Silent
  /\ UNCHANGED connFrame

\* the messages of a connected controller, as onMessage dispatches them
ControllerExecuteCommand == clients > 0 /\ IpcExecuteCommand

ControllerInterrupt == clients > 0 /\ IpcInterrupt

ControllerTerminalInput == clients > 0 /\ IpcTerminalInput

ControllerClose == clients > 0 /\ IpcClose

ConnInit ==
  /\ Mount(terminalInteractiveScenario)
  /\ NoPanes
  /\ cut = "lines"
  /\ budget = MaxConnRequests

ConnNext ==
  \/ StartShell
  \/ ReadStdout
  \/ ClientConnect
  \/ ClientDisconnect
  \/ ControllerExecuteCommand
  \/ KeyEnter
  \/ ControllerInterrupt
  \/ KeyCtrlC
  \/ ControllerTerminalInput
  \/ ControllerClose
  \/ KeyEscape
  \/ ProcExited
  \/ ShellDies
  \/ Render
  \/ Unmount

ConnSpec == ConnInit /\ [][ConnNext]_vars

----------------------------------------------------------------------------
(* cli.ts terminal-output: one getOutput round trip of a controller *)

\* the messages the latest handler of the session broadcast, in order: after
\* a render the effects of Terminal run in the order they are declared
Heard ==
  IF op = "render"
  THEN (IF ~shellState.isRunning /\ shellState.lastExitCode # NULL
        THEN <<"commandComplete">> ELSE <<>>)
       \o (IF lastOutput.type # "none" THEN <<"output">> ELSE <<>>)
       \o (IF processRef THEN <<"terminalReady">> ELSE <<>>)
  ELSE IF op = "getOutput" THEN <<"outputBuffer">>
  ELSE IF op \in {"execute", "execute:notInitialized", "execute:writeFailed",
                  "execute:lost"}
  THEN <<"commandStarted">>
  ELSE <<>>

\* nothing the session has broadcast is still on its way to the controller:
\* the socket delivers what a handler broadcast before the next handler runs
Quiet == cli.phase = "asked" => Heard = <<>>

\* Bun.connect resolves and open(socket) writes the getOutput request; on the
\* session's side onClientConnect runs
CliOpen ==
  /\ cli.phase = "idle"
  /\ Listening
  /\ clients < MaxClients
  /\ clients' = clients + 1
  /\ isConnected' = TRUE
  /\ renderPending' = (renderPending \/ ~isConnected)
  /\ op' = "clientConnect"
  /\ Silent
  /\ cli' = [cli EXCEPT !.phase = "asked"]
  /\ UNCHANGED <<processRef, writerRef, isRunning, lastExitCode,
                 commandStartTimeRef, pendingOutputRef, shellState, lines,
                 totalCountRef, events, readySent, cancelledSent, app, proc,
                 stdout, cut, requests, cmds, streamingEnabled,
                 ipcStreamingEnabled, hist, received, renderedTotal, budget,
                 regVars, racers>>

\* what the session does while the controller is connected and nothing is on
\* its way to it
CliStartShell == Quiet /\ StartShell

CliReadStdout == Quiet /\ ReadStdout

CliRender == Quiet /\ Render

CliPeerConnect == Quiet /\ ClientConnect

CliPeerExecuteCommand == Quiet /\ ControllerExecuteCommand

CliPeerSetStreaming == Quiet /\ clients > 0 /\ IpcSetStreaming

\* the session handles the getOutput request of the controller
CliGetOutput == Quiet /\ cli.phase = "asked" /\ IpcGetOutput

\* data(socket, data): the first message that arrives settles the round trip
CliData ==
  /\ cli.phase = "asked"
  /\ Heard # <<>>
  /\ cli' = [phase |-> "resolved", first |-> Heard[1],
             result |-> IF Heard[1] = "outputBuffer" THEN "lines" ELSE "empty"]
  /\ UNCHANGED <<processRef, writerRef, isRunning, lastExitCode,
                 commandStartTimeRef, pendingOutputRef, shellState, lines,
                 totalCountRef, events, readySent, cancelledSent,
                 renderPending, app, proc, stdout, cut, op, requests, cmds,
                 streamingEnabled, ipcStreamingEnabled, lastOutput, reply,
                 hist, received, renderedTotal, budget, connVars, regVars,
                 racers>>

\* the 2 s timer fires before any message has arrived: reject(new Error(...))
CliTimeout ==
  /\ cli.phase = "asked"
  /\ Heard = <<>>
  /\ cli' = [phase |-> "resolved", first |-> "none", result |-> "timeout"]
  /\ UNCHANGED <<processRef, writerRef, isRunning, lastExitCode,
                 commandStartTimeRef, pendingOutputRef, shellState, lines,
                 totalCountRef, events, readySent, cancelledSent,
                 renderPending, app, proc, stdout, cut, op, requests, cmds,
                 streamingEnabled, ipcStreamingEnabled, lastOutput, reply,
                 hist, received, renderedTotal, budget, connVars, regVars,
                 racers>>

\* socket.end() of the controller reaches the session: onClientDisconnect
CliEnd ==
  /\ cli.phase = "resolved"
  /\ Listening
  /\ clients' = clients - 1
  /\ isConnected' = FALSE
  /\ renderPending' = (renderPending \/ isConnected)
  /\ op' = "clientDisconnect"
  /\ Silent
  /\ cli' = [cli EXCEPT !.phase = "closed"]
  /\ UNCHANGED <<processRef, writerRef, isRunning, lastExitCode,
                 commandStartTimeRef, pendingOutputRef, shellState, lines,
                 totalCountRef, events, readySent, cancelledSent, app, proc,
                 stdout, cut, requests, cmds, streamingEnabled,
                 ipcStreamingEnabled, hist, received, renderedTotal, budget,
                 regVars, racers>>

CliNext ==
  \/ CliStartShell
  \/ CliReadStdout
  \/ CliRender
  \/ CliPeerConnect
  \/ CliPeerExecuteCommand
  \/ CliPeerSetStreaming
  \/ CliOpen
  \/ CliGetOutput
  \/ CliData
  \/ CliTimeout
  \/ CliEnd

CliSpec == ConnInit /\ [][CliNext]_vars

----------------------------------------------------------------------------
(* Spawning canvases into panes, and the pane registry *)

\* canvas ids and canvas kinds of the spawns explored
CanvasIds == {"t1", "c1"}

Kinds == {"terminal", "calendar"}

\* no canvasId: getCanvasPaneId() is called without one, and an empty string
\* is as falsy
NoId == ""

\* the Terminal and the registry are independent: a registry call leaves the
\* session alone
terminalVars ==
  <<processRef, writerRef, isRunning, lastExitCode, commandStartTimeRef,
    pendingOutputRef, shellState, lines, totalCountRef, events, readySent,
    cancelledSent, renderPending, app, proc, stdout, cut, requests, cmds,
    streamingEnabled, ipcStreamingEnabled, lastOutput, hist, received,
    renderedTotal, budget, connVars>>

\* getSocketPath(id)
GetSocketPath(id) == <<"/tmp/canvas-", id, ".sock">>

\* options.socketPath of a spawn: left out, or given
SocketOptions == {<<>>, <<"/tmp/custom.sock">>}

\* what a pane runs: the user's shell, or run-canvas.sh show <kind> with an
\* IPC server on --socket
ShellProgram == [program |-> "shell", kind |-> "", socket |-> <<>>]

CanvasProgram(kind, socketPath) ==
  [program |-> "canvas", kind |-> kind, socket |-> socketPath]

PaneInfo(canvasId, paneId, kind) ==
  [id |-> canvasId, paneId |-> paneId, kind |-> kind]

\* registry.panes[info.id] = info
With(panes, info) ==
  [i \in DOMAIN panes \cup {info.id} |->
     IF i = info.id THEN info ELSE panes[i]]

\* delete registry.panes[canvasId]
Without(panes, canvasId) == [i \in DOMAIN panes \ {canvasId} |-> panes[i]]

\* a liveness check that takes any answer of the multiplexer for the pane
VerifyPaneAnswers(paneId) == paneId \in 1..created

\* verifyPaneExists(paneId): display-message echoes the id of a pane it has
VerifyPaneExists(paneId) == paneId \in DOMAIN tmux

\* a stale entry that is kept
KeepRecord(reg, canvasId) == reg

\* clean up stale entry: delete registry.panes[canvasId]
EvictRecord(reg, canvasId) ==
  [reg EXCEPT !.panes = Without(reg.panes, canvasId)]

\* getCanvasPaneId(canvasId): the pane id returned (NULL for null) and the
\* registry as the call leaves it on disk
GetCanvasPaneId(reg, canvasId) ==
  IF canvasId # NoId /\ canvasId \in DOMAIN reg.panes
  THEN LET paneInfo == reg.panes[canvasId]
       IN IF VerifyPaneExists(paneInfo.paneId)
          THEN [value |-> paneInfo.paneId, registry |-> reg]
          ELSE [value |-> NULL, registry |-> EvictRecord(reg, canvasId)]
  ELSE IF reg.defaultPane # NULL /\ VerifyPaneExists(reg.defaultPane)
  THEN [value |-> reg.defaultPane, registry |-> reg]
  ELSE [value |-> IF legacyFile # NULL /\ VerifyPaneExists(legacyFile)
                  THEN legacyFile ELSE NULL,
        registry |-> [reg EXCEPT !.defaultPane = NULL]]

\* saveCanvasPaneId that makes every pane the default
SaveAlwaysDefault(reg, legacy, paneId, canvasId, kind) ==
  [registry |-> [panes |-> With(reg.panes, PaneInfo(canvasId, paneId, kind)),
                 defaultPane |-> paneId],
   legacy |-> paneId]

\* saveCanvasPaneId(paneId, canvasId, kind): the registry and the legacy file
\* as the call leaves them
SaveCanvasPaneId(reg, legacy, paneId, canvasId, kind) ==
  [registry |-> [panes |-> With(reg.panes, PaneInfo(canvasId, paneId, kind)),
                 defaultPane |-> IF kind # "terminal"
                                 THEN paneId ELSE reg.defaultPane],
   legacy |-> IF kind # "terminal" THEN paneId ELSE legacy]

\* listCanvasPanes that returns the live records and cleans nothing
ListKeepsStale(reg) ==
  [value |-> {reg.panes[i] : i \in {j \in DOMAIN reg.panes :
                                      reg.panes[j].paneId \in DOMAIN tmux}},
   registry |-> reg]

\* listCanvasPanes(): the records returned and the registry saved
ListCanvasPanes(reg) ==
  LET valid == {i \in DOMAIN reg.panes : VerifyPaneExists(reg.panes[i].paneId)}
  IN [value |-> {reg.panes[i] : i \in valid},
      registry |-> [reg EXCEPT !.panes = [i \in valid |-> reg.panes[i]]]]

\* closeCanvasPane that keeps the record of a pane it could not kill
CloseOnlyKilled(reg, canvasId) ==
  IF canvasId \notin DOMAIN reg.panes
  THEN [value |-> FALSE, registry |-> reg, killed |-> NULL]
  ELSE LET paneInfo == reg.panes[canvasId]
       IN IF paneInfo.paneId \in DOMAIN tmux
          THEN [value |-> TRUE,
                registry |->
                  [panes |-> Without(reg.panes, canvasId),
                   defaultPane |-> IF reg.defaultPane = paneInfo.paneId
                                   THEN NULL ELSE reg.defaultPane],
                killed |-> paneInfo.paneId]
          ELSE [value |-> FALSE, registry |-> reg, killed |-> paneInfo.paneId]

\* closeCanvasPane(canvasId): the value returned (kill-pane's status was 0),
\* the registry saved and the pane kill-pane was aimed at
CloseCanvasPane(reg, canvasId) ==
  IF canvasId \notin DOMAIN reg.panes
  THEN [value |-> FALSE, registry |-> reg, killed |-> NULL]
  ELSE LET paneInfo == reg.panes[canvasId]
       IN [value |-> paneInfo.paneId \in DOMAIN tmux,
           registry |->
             [panes |-> Without(reg.panes, canvasId),
              defaultPane |-> IF reg.defaultPane = paneInfo.paneId
                              THEN NULL ELSE reg.defaultPane],
           killed |-> paneInfo.paneId]

\* options.name of a spawn: left out, or given
NoName == ""

Names == {NoName, "backend"}

\* getPaneIndex(paneId), as a title
PaneIndex == "index"

\* a pane of the multiplexer: what it runs, and its title
Titled(program, title) ==
  [program |-> program.program, kind |-> program.kind,
   socket |-> program.socket, title |-> title]

\* what a spawn that succeeded reports, with what it did on the way:
\* lookedUp, it called getCanvasPaneId(); reuseTried, the pane it sent the
\* reuse keystrokes to, if any
Spawned(kind, canvasId, paneId, name, forceNew, lookedUp, reuseTried) ==
  [type |-> "spawn", kind |-> kind, id |-> canvasId, paneId |-> paneId,
   method |-> "tmux", name |-> name, forceNew |-> forceNew,
   lookedUp |-> lookedUp, reuseTried |-> reuseTried]

\* a split-window whose pane is never registered
CreateUnregistered(reg, program, canvasId, kind, name) ==
  LET paneId == created + 1
  IN /\ created < MaxPanes
     /\ created' = paneId
     /\ tmux' = [q \in DOMAIN tmux \cup {paneId} |->
                   IF q = paneId
                   THEN Titled(program, IF name # NoName
                                        THEN name ELSE PaneIndex)
                   ELSE tmux[q]]
     /\ registry' = reg
     /\ UNCHANGED legacyFile

\* tmux split-window ... <program>, then the close handler:
\* saveCanvasPaneId(trimmedPaneId, canvasId, kind) and
\* setPaneTitle(trimmedPaneId, name || getPaneIndex(trimmedPaneId))
CreateNewPane(reg, program, canvasId, kind, name) ==
  LET paneId == created + 1
      saved == SaveCanvasPaneId(reg, legacyFile, paneId, canvasId, kind)
  IN /\ created < MaxPanes
     /\ created' = paneId
     /\ tmux' = [q \in DOMAIN tmux \cup {paneId} |->
                   IF q = paneId
                   THEN Titled(program, IF name # NoName
                                        THEN name ELSE PaneIndex)
                   ELSE tmux[q]]
     /\ registry' = saved.registry
     /\ legacyFile' = saved.legacy

\* split-window fails: the spawn throws
SpawnFails(reg, forceNew, lookedUp, reuseTried) ==
  /\ registry' = reg
  /\ reply' = [type |-> "spawn:failed", forceNew |-> forceNew,
               lookedUp |-> lookedUp, reuseTried |-> reuseTried]
  /\ UNCHANGED <<legacyFile, tmux, created>>

\* a reuse that registers nothing
ReuseUnregistered(reg, paneId, program, canvasId, kind, name) ==
  /\ tmux' = [tmux EXCEPT ![paneId] =
                Titled(program, IF name # NoName
                                THEN name ELSE tmux[paneId].title)]
  /\ registry' = reg
  /\ UNCHANGED <<legacyFile, created>>

\* reuseExistingPane(paneId, command) succeeds, then
\* saveCanvasPaneId(existingPaneId, canvasId, kind) and, if a name is given,
\* setPaneTitle(existingPaneId, name)
ReuseExistingPane(reg, paneId, program, canvasId, kind, name) ==
  LET saved == SaveCanvasPaneId(reg, legacyFile, paneId, canvasId, kind)
  IN /\ tmux' = [tmux EXCEPT ![paneId] =
                   Titled(program, IF name # NoName
                                   THEN name ELSE tmux[paneId].title)]
     /\ registry' = saved.registry
     /\ legacyFile' = saved.legacy
     /\ UNCHANGED created

\* spawnTmux that looks for a pane to reuse whatever forceNew says
SpawnTmuxLooksUp(program, canvasId, kind, forceNew, name) ==
  LET existing == GetCanvasPaneId(registry, NoId)
  IN \/ /\ existing.value # NULL
        /\ ReuseExistingPane(existing.registry, existing.value, program,
                             canvasId, kind, name)
        /\ reply' = Spawned(kind, canvasId, existing.value, name, forceNew,
                            TRUE, existing.value)
     \/ /\ CreateNewPane(existing.registry, program, canvasId, kind, name)
        /\ reply' = Spawned(kind, canvasId, created + 1, name, forceNew,
                            TRUE, existing.value)
     \/ SpawnFails(existing.registry, forceNew, TRUE, existing.value)

\* spawnTmux(command, canvasId, forceNew, name)
SpawnTmux(program, canvasId, kind, forceNew, name) ==
  IF forceNew
  THEN \/ /\ CreateNewPane(registry, program, canvasId, kind, name)
          /\ reply' = Spawned(kind, canvasId, created + 1, name, TRUE, FALSE,
                              NULL)
       \/ SpawnFails(registry, TRUE, FALSE, NULL)
  ELSE LET existing == GetCanvasPaneId(registry, NoId)
       IN \/ /\ existing.value # NULL       \* the reuse succeeds
             /\ ReuseExistingPane(existing.registry, existing.value, program,
                                  canvasId, kind, name)
             /\ reply' = Spawned(kind, canvasId, existing.value, name, FALSE,
                                 TRUE, existing.value)
          \/ /\ CreateNewPane(existing.registry, program, canvasId, kind,
                              name)          \* no pane to reuse, or it failed
             /\ reply' = Spawned(kind, canvasId, created + 1, name, FALSE,
                                 TRUE, existing.value)
          \/ SpawnFails(existing.registry, FALSE, TRUE, existing.value)

\* spawnTerminalPane(id, config, options): a pane that runs the user's shell
SpawnTerminalPaneOf(names) ==
  /\ \E id \in CanvasIds, name \in names :
       \/ /\ CreateNewPane(registry, ShellProgram, id, "terminal", name)
          /\ reply' = Spawned("terminal", id, created + 1, name, FALSE, FALSE,
                              NULL)
       \/ SpawnFails(registry, FALSE, FALSE, NULL)
  /\ op' = "spawnTerminalPane"
  /\ UNCHANGED <<terminalVars, peerVars>>

\* spawnCanvas(kind, id, configJson, options) of a kind that is not terminal
\* (spawnCanvas of kind terminal is spawnTerminalPane)
SpawnCanvasOf(names) ==
  /\ \E kind \in Kinds \ {"terminal"}, id \in CanvasIds,
        socketOption \in SocketOptions, forceNew \in BOOLEAN, name \in names :
       LET socketPath == IF socketOption # <<>>
                         THEN socketOption
                         ELSE <<"/tmp/canvas-", id, ".sock">>
       IN SpawnTmux(CanvasProgram(kind, socketPath), id, kind, forceNew, name)
  /\ op' = "spawnCanvas"
  /\ UNCHANGED <<terminalVars, peerVars>>

\* spawns that give the pane no name, as the spawn command of the CLI does
SpawnTerminalPane == SpawnTerminalPaneOf({NoName})

SpawnCanvas == SpawnCanvasOf({NoName})

\* a call of getCanvasPaneId, with or without a canvas id
LookupPane ==
  /\ \E canvasId \in CanvasIds \cup {NoId} :
       LET found == GetCanvasPaneId(registry, canvasId)
       IN /\ registry' = found.registry
          /\ reply' = [type |-> "lookup", canvasId |-> canvasId,
                       value |-> found.value]
  /\ op' = "getCanvasPaneId"
  /\ UNCHANGED <<legacyFile, tmux, created, terminalVars, peerVars>>

\* a call of saveCanvasPaneId for a pane the multiplexer has created
SavePane ==
  /\ \E paneId \in 1..created, canvasId \in CanvasIds, kind \in Kinds :
       LET saved == SaveCanvasPaneId(registry, legacyFile, paneId, canvasId,
                                     kind)
       IN /\ registry' = saved.registry
          /\ legacyFile' = saved.legacy
          /\ reply' = [type |-> "save", canvasId |-> canvasId,
                       paneId |-> paneId, kind |-> kind]
  /\ op' = "saveCanvasPaneId"
  /\ UNCHANGED <<tmux, created, terminalVars, peerVars>>

\* a call of listCanvasPanes
ListPanes ==
  /\ LET listed == ListCanvasPanes(registry)
     IN /\ registry' = listed.registry
        /\ reply' = [type |-> "list", value |-> listed.value]
  /\ op' = "listCanvasPanes"
  /\ UNCHANGED <<legacyFile, tmux, created, terminalVars, peerVars>>

\* a call of closeCanvasPane: kill-pane ends the pane if the multiplexer
\* has it
ClosePane ==
  /\ \E canvasId \in CanvasIds :
       LET closed == CloseCanvasPane(registry, canvasId)
       IN /\ registry' = closed.registry
          /\ tmux' = [q \in DOMAIN tmux \ {closed.killed} |-> tmux[q]]
          /\ reply' = [type |-> "close", canvasId |-> canvasId,
                       value |-> closed.value, killed |-> closed.killed]
  /\ op' = "closeCanvasPane"
  /\ UNCHANGED <<legacyFile, created, terminalVars, peerVars>>

\* the user closes a pane, or what it runs exits
PaneDies ==
  /\ \E paneId \in DOMAIN tmux :
       tmux' = [q \in DOMAIN tmux \ {paneId} |-> tmux[q]]
  /\ op' = "paneDies"
  /\ reply' = NoReply
  /\ UNCHANGED <<registry, legacyFile, created, terminalVars, peerVars>>

\* the registry before its first call, with or without a legacy file
RegInit ==
  /\ Mount(terminalInteractiveScenario)
  /\ cut = "lines"
  /\ budget = MaxRequests

RegNext ==
  \/ SpawnTerminalPane
  \/ SpawnCanvas
  \/ LookupPane
  \/ SavePane
  \/ ListPanes
  \/ ClosePane
  \/ PaneDies

RegSpec == RegInit /\ [][RegNext]_vars

\* one process that spawns, looks up, lists and closes
AcqNext ==
  \/ SpawnTerminalPaneOf(Names)       \* spawns with or without options.name
  \/ SpawnCanvasOf(Names)
  \/ LookupPane
  \/ ListPanes
  \/ ClosePane
  \/ PaneDies

AcqSpec == RegInit /\ [][AcqNext]_vars

----------------------------------------------------------------------------
(* Two processes in saveCanvasPaneId at once *)

\* the terminal, the multiplexer and the controller: a save touches none
raceFrame == <<terminalVars, tmux, created, cli>>

\* a write that merges the records into those of the file
MergePaneRegistry(file, reg) ==
  [panes |-> [i \in DOMAIN file.panes \cup DOMAIN reg.panes |->
                IF i \in DOMAIN reg.panes THEN reg.panes[i]
                ELSE file.panes[i]],
   defaultPane |-> reg.defaultPane]

\* savePaneRegistry(registry): Bun.write replaces the content of the file
SavePaneRegistry(file, reg) == reg

\* const registry = await loadPaneRegistry(), in process p, called with
\* (paneId, canvasId, kind)
RaceLoad(p) ==
  /\ racers[p].pc = "idle"
  /\ \E paneId \in 1..MaxPanes, canvasId \in CanvasIds, kind \in Kinds :
       racers' = [racers EXCEPT ![p] =
                    [pc |-> "loaded", paneId |-> paneId, canvasId |-> canvasId,
                     kind |-> kind, snapshot |-> registry, at |-> 0]]
  /\ op' = "race:load"
  /\ reply' = NoReply
  /\ UNCHANGED <<registry, legacyFile, raceFrame>>

\* await Bun.write(LEGACY_PANE_FILE, paneId), for a kind that is not terminal
RaceWriteLegacy(p) ==
  /\ racers[p].pc = "loaded"
  /\ racers[p].kind # "terminal"
  /\ legacyFile' = racers[p].paneId
  /\ racers' = [racers EXCEPT ![p].pc = "legacyWritten"]
  /\ op' = "race:legacy"
  /\ reply' = NoReply
  /\ UNCHANGED <<registry, raceFrame>>

\* await savePaneRegistry(registry): the snapshot with the record of the
\* caller, and defaultPane for a kind that is not terminal
RaceSave(p) ==
  /\ \/ racers[p].pc = "loaded" /\ racers[p].kind = "terminal"
     \/ racers[p].pc = "legacyWritten"
  /\ LET r == racers[p]
         saved == SaveCanvasPaneId(r.snapshot, legacyFile, r.paneId,
                                   r.canvasId, r.kind)
     IN registry' = SavePaneRegistry(registry, saved.registry)
  /\ racers' = [racers EXCEPT ![p].pc = "saved",
                              ![p].at = Cardinality({q \in Procs :
                                          racers[q].pc = "saved"}) + 1]
  /\ op' = "race:save"
  /\ reply' = NoReply
  /\ UNCHANGED <<legacyFile, raceFrame>>

RaceNext ==
  \/ \E p \in Procs : RaceLoad(p)
  \/ \E p \in Procs : RaceWriteLegacy(p)
  \/ \E p \in Procs : RaceSave(p)

RaceSpec == RegInit /\ [][RaceNext]_vars

----------------------------------------------------------------------------
(* The output buffer driven on its own, by any caller of its handle *)

\* what such a caller leaves alone
sessionVars ==
  <<processRef, writerRef, isRunning, lastExitCode, commandStartTimeRef,
    pendingOutputRef, shellState, events, readySent, cancelledSent,
    renderPending, app, proc, stdout, cut, requests, cmds, streamingEnabled,
    ipcStreamingEnabled, renderedTotal, budget, connVars, regVars, peerVars>>

\* the content arguments of append
Contents ==
  {<<>>, Lit(<<NL>>), Lit(<<"a">>), Lit(<<"b", NL>>), Lit(<<"a", NL, "b">>),
   Lit(<<"a", NL, NL, "b">>)}

BufferAppend ==
  \E content \in Contents, source \in {"stdout"} :
    LET newLines == NewLines(content, source)
    IN /\ received + Len(newLines) <= MaxAppended
       /\ SetBuf(BufAppend(Buf, content, source))
       /\ hist' = hist \o newLines
       /\ received' = received + Len(newLines)
       /\ op' = "append"
       /\ reply' = [type |-> "append", content |-> content, source |-> source]
       /\ lastOutput' = NoOutput
       /\ UNCHANGED sessionVars

BufferAppendLine ==
  \E c \in {"a", "c"} :
    LET line == [content |-> Lit(<<c>>), source |-> "stderr"]
    IN /\ received + 1 <= MaxAppended
       /\ SetBuf(BufAppendLine(Buf, line))
       /\ hist' = Append(hist, line)
       /\ received' = received + 1
       /\ op' = "appendLine"
       /\ Silent
       /\ UNCHANGED sessionVars

BufferClear ==
  /\ SetBuf(BufClear(Buf))
  /\ hist' = <<>>
  /\ op' = "clear"
  /\ Silent
  /\ UNCHANGED <<received, sessionVars>>

BufferGetLines ==
  \E count \in Counts, fromEnd \in BOOLEAN :
    /\ reply' = [type |-> "lines", count |-> count, fromEnd |-> fromEnd,
                 lines |-> GetLines(lines, count, fromEnd)]
    /\ op' = "getLines"
    /\ lastOutput' = NoOutput
    /\ UNCHANGED <<lines, totalCountRef, hist, received, sessionVars>>

BufNext ==
  \/ BufferAppend
  \/ BufferAppendLine
  \/ BufferClear
  \/ BufferGetLines

\* a buffer mounted without a session around it
BufInit == Init /\ cut = "lines"

BufSpec == BufInit /\ [][BufNext]_vars

----------------------------------------------------------------------------
(* Steps and texts the properties speak of *)

\* a step of the stdout reader: it alone shortens stdout of a running shell
ReadStep == proc' = proc /\ Len(stdout') < Len(stdout)

\* the chunk a ReadStep hands to processOutput, and the pending text it scans
Chunk == SubSeq(stdout, 1, Len(stdout) - Len(stdout'))

Scanned == pendingOutputRef \o Chunk

\* a step in which the driver's execute() ran
ExecuteStep ==
  /\ requests' = requests + 1
  /\ op' \in {"execute", "execute:notInitialized", "execute:writeFailed",
              "execute:lost"}

\* the lines the step appended to the output buffer
Appended ==
  LET n == totalCountRef' - totalCountRef
      m == IF n < Len(lines') THEN n ELSE Len(lines')
  IN {lines'[i] : i \in (Len(lines') - m + 1)..Len(lines')}

LastLine(ls) == Chars(ls[Len(ls)].content)

MarkerFragments ==
  {EXIT_CODE_MARKER[i] : i \in 1..Len(EXIT_CODE_MARKER)}
    \cup {COMMAND_MARKER[i] : i \in 1..Len(COMMAND_MARKER)}

\* t holds the exit-code marker with an integer and, after it, the done marker
ExitThenDone(t) ==
  \E i \in 1..Len(t) :
    /\ OccursAt(t, EXIT_CODE_MARKER, i)
    /\ OccursAt(t, <<":">>, i + Len(EXIT_CODE_MARKER))
    /\ DigitsFrom(t, i + Len(EXIT_CODE_MARKER) + 1) # <<>>
    /\ \E j \in (i + Len(EXIT_CODE_MARKER) + 2)..Len(t) :
         OccursAt(t, COMMAND_MARKER, j)

----------------------------------------------------------------------------
(* C1..C10: completion detection and the session state machine *)

\* C1: a completion marker of a command that was interrupted is ignored: no
\* command is seen to complete (isRunning reset, lastExitCode overwritten) on
\* the marker of a command that interrupt() had already ended.
C1_StaleMarkerIgnored ==
  \A k \in 1..Len(cmds) : ~(cmds[k].interrupted /\ cmds[k].done)

\* C2: ordinary command output is never lost: whatever chunk the reader hands
\* to processOutput, the ordinary text in it (the "ok" of `echo ok`) is in a
\* line the step appends to the output buffer, also when the chunk holds the
\* exit-code and done markers.
C2_OutputNeverLost ==
  [][ReadStep =>
       \A i \in 1..Len(Chunk) :
         Chunk[i].ch = "ok" =>
           \E l \in Appended : \E j \in 1..Len(l.content) : l.content[j].ch = "ok"
    ]_vars

\* C3: no text of a sentinel marker reaches the output consumer: no line of
\* shell output in the buffer holds a marker or a fragment of one.
C3_NoMarkerText ==
  \A i \in 1..Len(lines) :
    lines[i].source # "system" =>
      \A j \in 1..Len(lines[i].content) :
        lines[i].content[j].ch \notin MarkerFragments

\* C4: completion is detected exactly when the pending text holds the exit-code
\* marker with an integer followed by the done marker; the step then sets
\* lastExitCode to that integer, isRunning to false and clears the pending
\* text.
C4_CompletionOnExitThenDone ==
  [][ReadStep =>
       IF ExitThenDone(Scanned)
       THEN /\ op' = "processOutput:complete"
            /\ lastExitCode' = ParseInt(ExitCodeMatch(Scanned))
            /\ ~isRunning'
            /\ pendingOutputRef' = <<>>
       ELSE op' # "processOutput:complete"
    ]_vars

C6_InterruptIdlesAtOnce ==
  op = "interrupt" => ~isRunning /\ ~shellState.isRunning

\* interrupt() returned while the shell lives on with the markers of the
\* interrupted command still to print
C6_Witness ==
  /\ op = "interrupt"
  /\ proc = "alive"
  /\ ExitThenDone(stdout)
  /\ \E k \in 1..Len(cmds) : cmds[k].interrupted /\ ~cmds[k].done

\* C7: execute() on a session whose shell process was never started reports
\* "Shell not initialized", writes nothing to the shell, queues nothing and
\* leaves isRunning and lastExitCode as they are.
C7_ExecuteNotInitialized ==
  [][(ExecuteStep /\ proc = "none") =>
       /\ op' = "execute:notInitialized"
       /\ LastLine(lines') = <<"Error: ", "Shell not initialized">>
       /\ UNCHANGED <<stdout, cmds, isRunning, lastExitCode, shellState,
                      pendingOutputRef, commandStartTimeRef>>
    ]_vars

\* execute() was called on a session whose spawn failed
C7_Witness ==
  /\ op = "execute:notInitialized"
  /\ proc = "none"
  /\ ~processRef

\* C8: process exit is terminal: once the shell process has exited or close()
\* was called, every execute() fails with a "session closed" error and the
\* session does not become Running.
C8_ExecuteAfterExitFails ==
  [][(ExecuteStep /\ proc \in {"dead", "reaped"}) =>
       /\ LastLine(lines') = <<"Error: ", "session closed">>
       /\ ~isRunning'
    ]_vars

\* C9: issuing a command clears lastExitCode: right after execute(command)
\* has issued it, isRunning is true and lastExitCode is unset.
C9_IssueClearsExitCode ==
  op = "execute" =>
    /\ isRunning
    /\ lastExitCode = NULL
    /\ shellState.isRunning
    /\ shellState.lastExitCode = NULL

\* C10: every commandComplete broadcast directly follows the commandStarted of
\* the command it completes and carries that command's exit code, and there is
\* none for a command that was interrupted.
C10_Bracketed ==
  \A i \in 2..Len(events) :
    events[i].type = "commandComplete" =>
      /\ events[i - 1].type = "commandStarted"
      /\ events[i - 1].cmd = events[i].cmd
      /\ events[i].cmd \in 1..Len(cmds)
      /\ ~cmds[events[i].cmd].interrupted
      /\ events[i].exitCode = cmds[events[i].cmd].code

----------------------------------------------------------------------------
(* C11..C15: the output buffer *)

\* the newest n lines of ls, and the oldest
Newest(ls, n) == SubSeq(ls, Len(ls) - Min(n, Len(ls)) + 1, Len(ls))

Oldest(ls, n) == SubSeq(ls, 1, Min(n, Len(ls)))

\* C11: after any sequence of append, appendLine and clear the buffer retains
\* at most maxLines lines.
C11_AtMostMaxLines == Len(lines) <= MaxBufferLines

\* appendLine on a full buffer has evicted a line
C11_Witness ==
  /\ op = "appendLine"
  /\ Len(hist) > MaxBufferLines
  /\ Len(lines) = MaxBufferLines

\* C12: eviction is FIFO and keeps the order: the buffer holds exactly the
\* last min(N, M) of the N lines appended, in append order.
C12_NewestInOrder == lines = Newest(hist, MaxBufferLines)

\* an append has pushed the oldest appended line out of a full buffer
C12_Witness ==
  /\ op = "append"
  /\ Len(hist) > MaxBufferLines
  /\ lines[1] # hist[1]

\* C13: over append calls alone, getTotalCount is the number of lines the
\* calls appended, however many of them were evicted.
C13_TotalIsSumAppended == (received = Len(hist)) => totalCountRef = received

\* appends alone have brought more lines than the buffer retains
C13_Witness ==
  /\ op = "append"
  /\ received = Len(hist)
  /\ received > Len(lines)

\* C14: the total-received counter never decreases over append, appendLine
\* and clear; clear() leaves it as it is.
C14_TotalNeverDecreases == [][totalCountRef' >= totalCountRef]_vars

\* C15: getLines(n, true) returns the last min(n, size) lines, getLines(n,
\* false) the first min(n, size) lines, both in buffer order, and getLines
\* without a count the whole buffer.
C15_GetLinesMinCount ==
  op = "getLines" =>
    reply.lines = IF reply.count = NULL THEN lines
                  ELSE IF reply.fromEnd THEN Newest(lines, reply.count)
                  ELSE Oldest(lines, reply.count)

----------------------------------------------------------------------------
(* C16..C20: the control plane *)

\* a step that handles one request of the kinds named
Handles(kinds) == requests' = requests + 1 /\ op' \in kinds

\* a step in which Terminal renders
RenderStep == renderPending /\ ~renderPending'

\* the content of the newest n lines of the buffer, as one text
NewestContent(n) ==
  LET ls == Newest(lines, n)
  IN Join([i \in 1..Len(ls) |-> ls[i].content])

C17_OutputOnlyWhileStreaming ==
  lastOutput.type = "output" => ipcStreamingEnabled /\ streamingEnabled

\* a render of a buffer with lines while streaming is disabled
C17_Witness ==
  /\ op = "render"
  /\ ~ipcStreamingEnabled
  /\ ~streamingEnabled
  /\ Len(lines) > 0
  /\ renderedTotal = totalCountRef

\* C18: while streaming is enabled, every append to the buffer produces
\* exactly one output message, which carries the appended content: a render
\* broadcasts the lines appended since the render before it, and nothing
\* when there are none.  (The renders that follow setStreaming, and a handler
\* that appended twice, are left aside.)
C18_OneOutputPerAppend ==
  [][(RenderStep /\ ipcStreamingEnabled /\ streamingEnabled
        /\ op \notin {"setStreaming", "execute:notInitialized",
                      "execute:writeFailed"}) =>
       IF totalCountRef > renderedTotal
       THEN /\ lastOutput'.type = "output"
            /\ lastOutput'.chunk = NewestContent(totalCountRef - renderedTotal)
       ELSE lastOutput' = NoOutput
    ]_vars

\* C19: in the display scenario output is streamed by default: with the
\* streamingEnabled of the configuration set, the render after shell output
\* was appended broadcasts an output message.
C19_DisplayStreamsByDefault ==
  [][(RenderStep /\ streamingEnabled /\ totalCountRef > renderedTotal
        /\ lines[Len(lines)].source = "stdout") =>
       lastOutput'.type = "output"
    ]_vars

\* C20: update, getSelection and getContent are no-ops: no error line, no
\* outbound message, no change of the session, the buffer or the streaming
\* flags.
C20_IgnoredMessagesNoOp ==
  [][Handles({"update", "getSelection", "getContent"}) =>
       /\ reply' = NoReply
       /\ lastOutput' = NoOutput
       /\ UNCHANGED <<processRef, writerRef, isRunning, lastExitCode,
                      commandStartTimeRef, pendingOutputRef, shellState, lines,
                      totalCountRef, events, readySent, cancelledSent,
                      renderPending, app, proc, stdout, streamingEnabled,
                      ipcStreamingEnabled>>
    ]_vars

\* one of the three messages was handled while a command was running in a
\* session of the display scenario
C20_Witness ==
  /\ op \in {"update", "getSelection", "getContent"}
  /\ isRunning
  /\ streamingEnabled
  /\ Len(lines) > 0

----------------------------------------------------------------------------
(* Readiness, errors and controller connections *)

\* C21: terminalReady is never broadcast before the shell process exists
\* (its pid is known to Terminal), and it is broadcast once in a session,
\* not repeatedly.
C21_ReadyOncePerSession ==
  /\ readySent > 0 => proc # "none" /\ shellState.pid # NULL
  /\ readySent <= 1

\* sendError(message) of the IPC handle: no handler, callback or effect of
\* Terminal calls it
SendError(evs, message) == Broadcast(evs, Ev("error", message, NULL, 0))

\* the driver's execute() or write() has just failed: onError was called
DriverFailed ==
  op \in {"execute:notInitialized", "execute:writeFailed", "write:failed"}

\* an error message is among the newest broadcasts
ErrorSurfaced == \E i \in DOMAIN events : events[i].type = "error"

\* C22: a failure inside the driver (execute without a writer, a rejected
\* write to the shell) is broadcast to the controllers as an error message,
\* by the failing handler or by the render that follows it, and it ends
\* neither the session nor the shell process.
C22_DriverFailureSurfaced ==
  [][/\ DriverFailed' /\ requests' = requests + 1
        => /\ app' = app /\ proc' = proc
           /\ ErrorSurfaced' \/ renderPending'
     /\ DriverFailed /\ RenderStep => ErrorSurfaced']_vars

\* C23: a controller that connects or disconnects, at any point and in any
\* interleaving, leaves the shell, the session state, the output buffer and
\* what was broadcast as they were: the step closes nothing and ends nothing.
C23_DisconnectKeepsSession ==
  [][clients' # clients
       => UNCHANGED <<processRef, writerRef, proc, app, stdout, isRunning,
                      lastExitCode, commandStartTimeRef, pendingOutputRef,
                      shellState, lines, totalCountRef, events, readySent,
                      cancelledSent, cmds, requests, streamingEnabled,
                      ipcStreamingEnabled>>]_vars

\* one of two controllers has disconnected, and the one that remains has had
\* a command run by the shell
C23_Witness ==
  /\ clients > 0
  /\ ~isConnected
  /\ op = "execute"
  /\ proc = "alive"
  /\ Len(cmds) > 0

----------------------------------------------------------------------------
(* C24..C30: spawning and the pane registry *)

\* C24: after a spawn with canvas id X, of any kind, terminal included, the
\* pane of the session runs a canvas process of that kind whose IPC server
\* listens on getSocketPath(X) (or on the socket path the spawn was given), so
\* that the messages a controller sends to that address reach the session.
C24_SpawnedSessionListens ==
  reply.type = "spawn"
    => /\ reply.paneId \in DOMAIN tmux
       /\ tmux[reply.paneId].program = "canvas"
       /\ tmux[reply.paneId].kind = reply.kind
       /\ tmux[reply.paneId].socket
            \in {GetSocketPath(reply.id)} \cup (SocketOptions \ {<<>>})

\* C25: a lookup by canvas id that directly follows the save of that id
\* returns the pane saved when the multiplexer still has it, and null
\* otherwise; and any lookup of an id that has a record returns the record's
\* pane and changes nothing when the pane is live, and otherwise returns null
\* and leaves the registry without a record for the id.
C25_LookupAfterSave ==
  [][/\ reply.type = "save" /\ reply'.type = "lookup"
          /\ reply'.canvasId = reply.canvasId
        => reply'.value = IF reply.paneId \in DOMAIN tmux
                          THEN reply.paneId ELSE NULL
     /\ reply'.type = "lookup" /\ reply'.canvasId \in DOMAIN registry.panes
        => LET saved == registry.panes[reply'.canvasId]
           IN IF saved.paneId \in DOMAIN tmux
              THEN reply'.value = saved.paneId /\ registry' = registry
              ELSE /\ reply'.value = NULL
                   /\ reply'.canvasId \notin DOMAIN registry'.panes]_vars

\* a lookup by id has returned null although the default pane is live: it
\* did not fall back, so it found a record with a dead pane, and the record
\* is gone
C25_Witness ==
  /\ reply.type = "lookup"
  /\ reply.canvasId = "t1"
  /\ reply.value = NULL
  /\ "t1" \notin DOMAIN registry.panes
  /\ registry.defaultPane \in DOMAIN tmux

\* C26: on each path of a lookup (by canvas id, by defaultPane, by the legacy
\* file) a pane returned is one the multiplexer has during the call; a record
\* whose pane failed the check is removed by the call, and a defaultPane that
\* failed it is cleared.
C26_NoStaleHandle ==
  [][reply'.type = "lookup"
       => LET canvasId == reply'.canvasId
              byId == canvasId \in DOMAIN registry.panes
          IN /\ reply'.value # NULL => reply'.value \in DOMAIN tmux
             /\ byId /\ registry.panes[canvasId].paneId \notin DOMAIN tmux
                  => canvasId \notin DOMAIN registry'.panes
             /\ ~byId /\ registry.defaultPane \notin DOMAIN tmux
                  => registry'.defaultPane = NULL]_vars

\* a lookup without an id, of a registry that has records and no
\* defaultPane, has returned the live pane the legacy file names
C26_Witness ==
  /\ reply.type = "lookup"
  /\ reply.canvasId = NoId
  /\ reply.value = legacyFile
  /\ legacyFile \in DOMAIN tmux
  /\ registry.defaultPane = NULL
  /\ DOMAIN registry.panes # {}

\* C27: a lookup falls back to defaultPane and to the legacy file only when
\* it is given no canvas id: a lookup by an id that has no record returns
\* null, never the pane of another canvas.
C27_NoFallbackWithId ==
  [][/\ reply'.type = "lookup"
     /\ reply'.canvasId # NoId
     /\ reply'.canvasId \notin DOMAIN registry.panes
       => reply'.value = NULL]_vars

\* C28: a save (called on its own, or by a spawn) leaves under the canvas id
\* the record of the pane and kind saved, and every other record as it was;
\* defaultPane becomes the pane saved when the kind is not terminal, and
\* stays what it was when the kind is terminal.
C28_SaveUpserts ==
  [][reply'.type \in {"save", "spawn"}
       => LET canvasId == IF reply'.type = "save"
                          THEN reply'.canvasId ELSE reply'.id
              paneId == reply'.paneId
              kind == reply'.kind
          IN /\ DOMAIN registry'.panes = DOMAIN registry.panes \cup {canvasId}
             /\ registry'.panes[canvasId] =
                  [id |-> canvasId, paneId |-> paneId, kind |-> kind]
             /\ \A other \in DOMAIN registry.panes \ {canvasId} :
                  registry'.panes[other] = registry.panes[other]
             /\ kind # "terminal" => registry'.defaultPane = paneId
             /\ kind = "terminal"
                  => registry'.defaultPane = registry.defaultPane]_vars

\* a terminal has been saved under t1 while another pane is the default and
\* canvas c1 keeps its record
C28_Witness ==
  /\ reply.type = "save"
  /\ reply.kind = "terminal"
  /\ reply.canvasId = "t1"
  /\ registry.defaultPane # NULL
  /\ registry.defaultPane # reply.paneId
  /\ "c1" \in DOMAIN registry.panes
  /\ registry.panes["c1"].kind = "calendar"

\* C29: list() returns exactly the records whose pane the multiplexer has,
\* and leaves in the registry exactly those records, as they were.
C29_ListLiveRecords ==
  [][reply'.type = "list"
       => LET live == {i \in DOMAIN registry.panes :
                         registry.panes[i].paneId \in DOMAIN tmux}
          IN /\ reply'.value = {registry.panes[i] : i \in live}
             /\ DOMAIN registry'.panes = live
             /\ \A i \in live : registry'.panes[i] = registry.panes[i]]_vars

\* a list has returned the one record that is live, a terminal, and the
\* registry holds that record alone, while the default pane is dead
C29_Witness ==
  /\ reply.type = "list"
  /\ DOMAIN registry.panes = {"t1"}
  /\ reply.value = {registry.panes["t1"]}
  /\ registry.panes["t1"].kind = "terminal"
  /\ registry.defaultPane # NULL
  /\ registry.defaultPane \notin DOMAIN tmux

\* C30: closing a canvas that has a record removes the record whether or not
\* kill-pane succeeded, clears defaultPane when it named the pane of the
\* record and leaves it alone otherwise, and leaves every other record as it
\* was; the value returned tells whether kill-pane succeeded.
C30_RemoveDeletesRecord ==
  [][reply'.type = "close" /\ reply'.canvasId \in DOMAIN registry.panes
       => LET canvasId == reply'.canvasId
              removed == registry.panes[canvasId].paneId
          IN /\ DOMAIN registry'.panes = DOMAIN registry.panes \ {canvasId}
             /\ \A other \in DOMAIN registry'.panes :
                  registry'.panes[other] = registry.panes[other]
             /\ registry'.defaultPane =
                  IF registry.defaultPane = removed
                  THEN NULL ELSE registry.defaultPane
             /\ reply'.value = (removed \in DOMAIN tmux)]_vars

\* a close whose kill-pane failed, the pane being gone already, has removed
\* the record of a canvas; the record of the other canvas is still there
C30_Witness ==
  /\ reply.type = "close"
  /\ reply.killed # NULL
  /\ ~reply.value
  /\ reply.canvasId \notin DOMAIN registry.panes
  /\ DOMAIN registry.panes # {}
  /\ registry.defaultPane = NULL

----------------------------------------------------------------------------
(* C31..C33, C37, C40: acquiring a pane *)

\* the pane a lookup without an id finds: the default pane if the
\* multiplexer has it, else the pane of the legacy file if it has that
Reusable ==
  IF registry.defaultPane \in DOMAIN tmux THEN registry.defaultPane
  ELSE IF legacyFile \in DOMAIN tmux THEN legacyFile
  ELSE NULL

\* C31: a spawn without forceNew that finds a live reusable pane tries to
\* reuse that pane first; when the reuse fails and the spawn succeeds all the
\* same, it has created a new pane, the record of the canvas id holds the new
\* pane, and defaultPane is the new pane.
C31_ReuseThenCreate ==
  [][(/\ reply'.type = "spawn"
      /\ reply'.kind # "terminal"
      /\ ~reply'.forceNew
      /\ Reusable # NULL)
       => /\ reply'.reuseTried = Reusable
          /\ (reply'.paneId # Reusable)
               => /\ reply'.paneId = created + 1
                  /\ DOMAIN tmux' = DOMAIN tmux \cup {reply'.paneId}
                  /\ reply'.id \in DOMAIN registry'.panes
                  /\ registry'.panes[reply'.id].paneId = reply'.paneId
                  /\ registry'.defaultPane = reply'.paneId]_vars

\* the reuse of a live pane has failed, and the spawn has put its canvas
\* into a new pane, which is now the default
C31_Witness ==
  /\ reply.type = "spawn"
  /\ reply.reuseTried \in DOMAIN tmux
  /\ reply.paneId # reply.reuseTried
  /\ registry.panes[reply.id].paneId = reply.paneId
  /\ registry.defaultPane = reply.paneId

\* C32: a spawn with forceNew, and every spawn of a terminal, looks for no
\* pane to reuse and tries none: when it succeeds it has created a new pane
\* beside the panes there were, which it has not touched, and when it fails
\* it has changed neither the panes nor the registry.
C32_ForcedSpawnCreates ==
  [][(/\ reply'.type \in {"spawn", "spawn:failed"}
      /\ reply'.forceNew \/ op' = "spawnTerminalPane")
       => /\ ~reply'.lookedUp
          /\ reply'.reuseTried = NULL
          /\ \A q \in DOMAIN tmux : q \in DOMAIN tmux' /\ tmux'[q] = tmux[q]
          /\ IF reply'.type = "spawn"
             THEN /\ reply'.paneId = created + 1
                  /\ created' = created + 1
                  /\ DOMAIN tmux' = DOMAIN tmux \cup {reply'.paneId}
                  /\ registry'.panes[reply'.id].paneId = reply'.paneId
                  /\ \A i \in DOMAIN registry.panes \ {reply'.id} :
                       /\ i \in DOMAIN registry'.panes
                       /\ registry'.panes[i] = registry.panes[i]
             ELSE /\ registry' = registry
                  /\ UNCHANGED <<tmux, created, legacyFile>>]_vars

\* a canvas spawned with forceNew is in the second pane while the first pane,
\* the pane of another canvas, is alive
C32_Witness ==
  /\ reply.type = "spawn"
  /\ reply.forceNew
  /\ reply.paneId = 2
  /\ 1 \in DOMAIN tmux
  /\ \E i \in DOMAIN registry.panes :
       registry.panes[i].paneId = 1 /\ registry.panes[i].kind # "terminal"

\* C33: after every spawn that succeeded, by creation or by reuse, the title
\* of the pane is the name the spawn was given, or the pane's index when it
\* was given none.
C33_TitleSetOnSpawn ==
  reply.type = "spawn"
    => tmux[reply.paneId].title =
         IF reply.name # NoName THEN reply.name ELSE PaneIndex

\* C37: a spawn that succeeds in a pane there already was has created no
\* pane, and leaves the record of its canvas id holding that pane and, the
\* kind not being terminal, defaultPane equal to it.
C37_ReuseRegistersPane ==
  [][(/\ reply'.type = "spawn"
      /\ reply'.paneId \in DOMAIN tmux)
       => /\ created' = created
          /\ DOMAIN tmux' = DOMAIN tmux
          /\ reply'.id \in DOMAIN registry'.panes
          /\ registry'.panes[reply'.id].paneId = reply'.paneId
          /\ reply'.kind # "terminal"
          /\ registry'.defaultPane = reply'.paneId]_vars

\* a canvas has been spawned into the one pane there is, which another
\* canvas id had before
C37_Witness ==
  /\ reply.type = "spawn"
  /\ reply.paneId = reply.reuseTried
  /\ created = 1
  /\ DOMAIN tmux = {1}
  /\ registry.panes[reply.id].paneId = 1
  /\ \E i \in DOMAIN registry.panes : i # reply.id

\* C40: no two records of the registry hold the same pane.
C40_NoSharedPane ==
  \A i, j \in DOMAIN registry.panes :
    i # j => registry.panes[i].paneId # registry.panes[j].paneId

----------------------------------------------------------------------------
(* C35, C36, C39: exit codes, append, overlapping commands *)

\* C35: lastExitCode, in the hook and in the state Terminal keeps of it,
\* changes only in a step of processOutput that has matched an exit-code
\* marker in the pending output, and becomes the integer of that marker;
\* every other step leaves it as it is.
C35_ExitCodeOnlyFromMarker ==
  [][(\/ lastExitCode' # lastExitCode
      \/ shellState'.lastExitCode # shellState.lastExitCode)
       => /\ op' = "processOutput:complete"
          /\ \E n \in 1..Len(stdout) :
               LET pending == pendingOutputRef \o SubSeq(stdout, 1, n)
               IN /\ ExitCodeMatch(pending) # <<>>
                  /\ lastExitCode' = ParseInt(ExitCodeMatch(pending))
          /\ shellState'.lastExitCode = lastExitCode']_vars

\* an exit code has been recorded, and a handler that is not completion
\* detection has run since and has left it
C35_Witness ==
  /\ lastExitCode # NULL
  /\ shellState.lastExitCode = lastExitCode
  /\ op \in {"execute", "write", "interrupt", "close", "exited", "getOutput"}

\* C36: append(content, source) adds one line for each stretch of content
\* between line breaks, blank stretches between two breaks included, and none
\* for the empty stretch after a final break: the lines added carry the
\* source, hold no line break, and joined by line breaks give content without
\* its final break. The counter grows by their number and the buffer holds
\* the newest lines; append of the empty text changes neither.
C36_AppendSplitsIntoLines ==
  [][reply'.type = "append"
       => LET c == reply'.content
              k == Cardinality({i \in 1..Len(c) : c[i].ch = NL})
              ends == c # <<>> /\ c[Len(c)].ch = NL
              n == IF c = <<>> THEN 0 ELSE IF ends THEN k ELSE k + 1
              stripped == IF ends THEN SubSeq(c, 1, Len(c) - 1) ELSE c
              added == SubSeq(hist', Len(hist) + 1, Len(hist'))
              all == lines \o added
          IN /\ Len(hist') = Len(hist) + n
             /\ SubSeq(hist', 1, Len(hist)) = hist
             /\ \A j \in 1..n :
                  /\ added[j].source = reply'.source
                  /\ \A i \in 1..Len(added[j].content) :
                       added[j].content[i].ch # NL
             /\ Join([j \in 1..n |-> added[j].content]) = stripped
             /\ totalCountRef' = totalCountRef + n
             /\ lines' = SubSeq(all, Len(all) - Min(Len(all), MaxBufferLines) + 1,
                                Len(all))
             /\ c = <<>> => lines' = lines /\ totalCountRef' = totalCountRef]_vars

\* a text with a blank line in it has been appended: three lines, the second
\* of them empty
C36_Witness ==
  /\ reply.type = "append"
  /\ reply.content = Lit(<<"a", NL, NL, "b">>)
  /\ Len(hist) >= 3
  /\ hist[Len(hist) - 1].content = <<>>
  /\ hist[Len(hist)].content = Lit(<<"b">>)

\* two commands have been issued, the second before the first was seen to
\* complete, and neither has been interrupted
Overlapping ==
  /\ Len(cmds) = 2
  /\ isRunning
  /\ \A k \in 1..2 : ~cmds[k].done /\ ~cmds[k].interrupted

\* C39: with a second command issued while the first is running, a step of
\* the stdout reader ends the running state only when it detects the
\* completion of the second command, and lastExitCode is then the exit code
\* of the second command.
C39_RunningUntilSecondCompletes ==
  [][Overlapping /\ ReadStep /\ ~isRunning'
       => /\ cmds'[2].done
          /\ lastExitCode' = cmds[2].code]_vars

----------------------------------------------------------------------------
(* C38: the getOutput round trip of terminal-output *)

\* C38: the round trip of terminal-output yields the lines of the
\* outputBuffer reply whatever the session broadcasts before it: the message
\* that settles the round trip is the outputBuffer reply, and the result its
\* lines.
C38_EventsNotMistaken ==
  cli.first # "none" => cli.first = "outputBuffer" /\ cli.result = "lines"

----------------------------------------------------------------------------
(* C34: the registry race *)

\* both processes have saved, from the same snapshot, records of two ids
SameSnapshot ==
  /\ \A p \in Procs : racers[p].pc = "saved"
  /\ racers[1].snapshot = racers[2].snapshot
  /\ racers[1].canvasId # racers[2].canvasId

\* C34: when two processes save records of different ids from the same
\* snapshot of the registry, the registry ends as the last writer wrote it:
\* it holds the last writer's record, and the first writer's record, which
\* the snapshot did not hold, is absent.
C34_LastWriterWins ==
  SameSnapshot
    => \A first, last \in Procs :
         racers[first].at < racers[last].at
           => /\ racers[last].canvasId \in DOMAIN registry.panes
              /\ registry.panes[racers[last].canvasId].paneId
                   = racers[last].paneId
              /\ racers[first].canvasId \in DOMAIN registry.panes
                   => racers[first].canvasId
                        \in DOMAIN racers[first].snapshot.panes

\* the lost update: both have saved from the empty snapshot, and the registry
\* holds one record, the second writer's
C34_Witness ==
  /\ SameSnapshot
  /\ racers[1].at = 1
  /\ racers[2].at = 2
  /\ DOMAIN racers[1].snapshot.panes = {}
  /\ DOMAIN registry.panes = {racers[2].canvasId}


============================================================================
